---- MODULE Spec2Model ----
(***************************************************************************)
(* Model of src/interface/mod.rs of usbd-hid-devices: the allocation       *)
(* protocol (UsbAllocatable), the interface capability's derived           *)
(* hid_descriptor_body(), the heterogeneous interface list (InterfaceHList *)
(* for HNil / HCons) and the wrapping protocol (WrappedInterfaceConfig).   *)
(*                                                                         *)
(* An HList is a sequence: HNil is <<>>, HCons{head, tail} is              *)
(* <<head>> \o tail.  Every operation returns a record holding its return  *)
(* value together with the calls it made on its elements, in order.        *)
(***************************************************************************)
EXTENDS Integers, Sequences, FiniteSets, TLC

VARIABLES
    pc,         \* "config": configuration not yet allocated; "live": collection in use
    config,     \* the configuration HList handed to allocate()
    usb_alloc,  \* state of the UsbBusAllocator
    list,       \* the allocated interface HList
    writer,     \* the DescriptorWriter of the last write_descriptors()
    op,         \* the last operation called, with its arguments
    calls,      \* the calls that operation made, in order
    result      \* what that operation returned

vars == <<pc, config, usb_alloc, list, writer, op, calls, result>>

----------------------------------------------------------------------------
(* Bounds *)

MaxN == 3
MaxDepth == 1
MaxDescLen == 65540

----------------------------------------------------------------------------
(* Values *)

U8 == 0 .. (2^8 - 1)
U16_MAX == 2^16 - 1

None == [some |-> FALSE]
Some(v) == [some |-> TRUE, v |-> v]

Ok(v) == [ok |-> TRUE, v |-> v]
Err(e) == [ok |-> FALSE, e |-> e]

Call(f, t) == [fn |-> f, on |-> t]

HNil == <<>>
HCons(h, t) == <<h>> \o t

\* crate::hid_class::descriptor
SPEC_VERSION_1_11 == 273
COUNTRY_CODE_NOT_SUPPORTED == 0
DescriptorType_Report == 34

----------------------------------------------------------------------------
(* HidDescriptorBody and its packing *)

HidDescriptorBody(len) ==
    [ bcd_hid           |-> SPEC_VERSION_1_11,
      country_code      |-> COUNTRY_CODE_NOT_SUPPORTED,
      num_descriptors   |-> 1,
      descriptor_type   |-> DescriptorType_Report,
      descriptor_length |-> len ]

\* #[packed_struct(endian = "lsb", size_bytes = 7)]: fields in declaration
\* order, each u16 least significant byte first.
pack(b) ==
    << b.bcd_hid % 256, b.bcd_hid \div 256,
       b.country_code,
       b.num_descriptors,
       b.descriptor_type,
       b.descriptor_length % 256, b.descriptor_length \div 256 >>

\* u16::try_from(usize)
u16_try_from(n) == IF n <= U16_MAX THEN Ok(n) ELSE Err("TryFromIntError")

----------------------------------------------------------------------------
(* The interfaces held by a list.  A raw interface owns its number, its    *)
(* report descriptor, its optional string and its protocol state; a        *)
(* wrapped interface owns its inner interface and delegates to it.         *)

RECURSIVE tag_of(_)
tag_of(e) == IF e.kind = "raw" THEN e.tag ELSE tag_of(e.inner)

RECURSIVE id(_)
id(self) == IF self.kind = "raw" THEN self.id ELSE id(self.inner)

RECURSIVE report_descriptor_len(_)
report_descriptor_len(self) ==
    IF self.kind = "raw" THEN self.rd_len ELSE report_descriptor_len(self.inner)

RECURSIVE Interface_get_string(_, _, _)
Interface_get_string(self, index, lang_id) ==
    IF self.kind = "raw"
    THEN IF self.str.some /\ self.str.v.index = index /\ self.str.v.lang = lang_id
         THEN Some(self.str.v.s)
         ELSE None
    ELSE Interface_get_string(self.inner, index, lang_id)

RECURSIVE Interface_reset(_)
Interface_reset(self) ==
    IF self.kind = "raw"
    THEN [self EXCEPT !.protocol = "Report"]
    ELSE [self EXCEPT !.inner = Interface_reset(self.inner)]

MutHidDescriptorBodyTruncate(self) ==
    [panic |-> FALSE,
     v |-> pack(HidDescriptorBody(report_descriptor_len(self) % (U16_MAX + 1)))]

MutHidDescriptorBodyBelowMax(self) ==
    LET len == report_descriptor_len(self)
    IN  IF len < U16_MAX
        THEN [panic |-> FALSE, v |-> pack(HidDescriptorBody(len))]
        ELSE [panic |-> TRUE]

\* InterfaceClass::hid_descriptor_body: the 7 bytes, or a panic
hid_descriptor_body(self) ==
    LET descriptor_len == u16_try_from(report_descriptor_len(self))
    IN  IF descriptor_len.ok
        THEN [panic |-> FALSE, v |-> pack(HidDescriptorBody(descriptor_len.v))]
        ELSE [panic |-> TRUE]

----------------------------------------------------------------------------
(* The DescriptorWriter: sequential append into a buffer of fixed          *)
(* capacity, failing on overflow.  A descriptor is a 2-byte header         *)
(* followed by its body.                                                   *)

Writer_write(w, by, descriptor_type, body) ==
    IF w.position + 2 + Len(body) > w.capacity
    THEN [ret |-> Err("BufferOverflow"), writer |-> w]
    ELSE [ret |-> Ok(<<>>),
          writer |-> [w EXCEPT !.position = @ + 2 + Len(body),
                               !.buf = Append(@, [by |-> by,
                                                  descriptor_type |-> descriptor_type,
                                                  body |-> body])]]

\* An interface's write_descriptors: its interface descriptor, then the HID
\* descriptor whose body is hid_descriptor_body().  `by` names the object
\* the list called.
RECURSIVE Interface_write_descriptors(_, _)
Interface_write_descriptors(self, w) ==
    IF self.kind = "raw"
    THEN LET i == Writer_write(w, self.tag, "Interface",
                               << self.id, 0, 1, 3, 0, 0, 0 >>)
         IN  IF ~i.ret.ok
             THEN i
             ELSE Writer_write(i.writer, self.tag, "Hid",
                               hid_descriptor_body(self).v)
    ELSE Interface_write_descriptors(self.inner, w)

----------------------------------------------------------------------------
(* InterfaceHList for HNil and for HCons<Head, Tail>                       *)

RECURSIVE get_id_mut(_, _)
RECURSIVE get_id(_, _)
RECURSIVE reset(_)
RECURSIVE write_descriptors(_, _)
RECURSIVE get_string(_, _, _)

HNil_get_id_mut(self, id_) == [ret |-> None, calls |-> <<>>]

HNil_get_id(self, id_) == [ret |-> None, calls |-> <<>>]

HNil_reset(self) == [list |-> self, calls |-> <<>>]

HNil_write_descriptors(self, w) == [ret |-> Ok(<<>>), writer |-> w, calls |-> <<>>]

HNil_get_string(self, index, lang_id) == [ret |-> None, calls |-> <<>>]

MutGetIdMutLast(self, id_) ==
    LET t == get_id_mut(Tail(self), id_)
        c == <<Call("id", tag_of(Head(self)))>>
    IN  IF t.ret.some
        THEN [ret |-> t.ret, calls |-> c \o t.calls]
        ELSE IF id_ = id(Head(self))
             THEN [ret |-> Some(Head(self)), calls |-> c \o t.calls]
             ELSE [ret |-> None, calls |-> c \o t.calls]

HCons_get_id_mut(self, id_) ==
    IF id_ = id(Head(self))
    THEN [ret |-> Some(Head(self)), calls |-> <<Call("id", tag_of(Head(self)))>>]
    ELSE LET t == get_id_mut(Tail(self), id_)
         IN  [ret |-> t.ret, calls |-> <<Call("id", tag_of(Head(self)))>> \o t.calls]

MutGetIdHeadOnly(self, id_) ==
    IF id_ = id(Head(self))
    THEN [ret |-> Some(Head(self)), calls |-> <<Call("id", tag_of(Head(self)))>>]
    ELSE [ret |-> None, calls |-> <<Call("id", tag_of(Head(self)))>>]

HCons_get_id(self, id_) ==
    IF id_ = id(Head(self))
    THEN [ret |-> Some(Head(self)), calls |-> <<Call("id", tag_of(Head(self)))>>]
    ELSE LET t == get_id(Tail(self), id_)
         IN  [ret |-> t.ret, calls |-> <<Call("id", tag_of(Head(self)))>> \o t.calls]

MutResetTailFirst(self) ==
    LET t == reset(Tail(self))
    IN  [list |-> HCons(Interface_reset(Head(self)), t.list),
         calls |-> t.calls \o <<Call("reset", tag_of(Head(self)))>>]

HCons_reset(self) ==
    LET t == reset(Tail(self))
    IN  [list |-> HCons(Interface_reset(Head(self)), t.list),
         calls |-> <<Call("reset", tag_of(Head(self)))>> \o t.calls]

MutWriteIgnoreHeadError(self, w) ==
    LET h == Interface_write_descriptors(Head(self), w)
        t == write_descriptors(Tail(self), h.writer)
    IN  [ret |-> t.ret, writer |-> t.writer,
         calls |-> <<Call("write_descriptors", tag_of(Head(self)))>> \o t.calls]

HCons_write_descriptors(self, w) ==
    LET h == Interface_write_descriptors(Head(self), w)
    IN  IF ~h.ret.ok
        THEN [ret |-> h.ret, writer |-> h.writer,
              calls |-> <<Call("write_descriptors", tag_of(Head(self)))>>]
        ELSE LET t == write_descriptors(Tail(self), h.writer)
             IN  [ret |-> t.ret, writer |-> t.writer,
                  calls |-> <<Call("write_descriptors", tag_of(Head(self)))>> \o t.calls]

MutGetStringLastWins(self, index, lang_id) ==
    LET s == Interface_get_string(Head(self), index, lang_id)
        t == get_string(Tail(self), index, lang_id)
        c == <<Call("get_string", tag_of(Head(self)))>>
    IN  IF t.ret.some
        THEN [ret |-> t.ret, calls |-> c \o t.calls]
        ELSE [ret |-> s, calls |-> c \o t.calls]

HCons_get_string(self, index, lang_id) ==
    LET s == Interface_get_string(Head(self), index, lang_id)
    IN  IF s.some
        THEN [ret |-> s, calls |-> <<Call("get_string", tag_of(Head(self)))>>]
        ELSE LET t == get_string(Tail(self), index, lang_id)
             IN  [ret |-> t.ret,
                  calls |-> <<Call("get_string", tag_of(Head(self)))>> \o t.calls]

\* Static dispatch on the shape of the list
get_id_mut(self, id_) ==
    IF self = HNil THEN HNil_get_id_mut(self, id_) ELSE HCons_get_id_mut(self, id_)

get_id(self, id_) ==
    IF self = HNil THEN HNil_get_id(self, id_) ELSE HCons_get_id(self, id_)

reset(self) ==
    IF self = HNil THEN HNil_reset(self) ELSE HCons_reset(self)

write_descriptors(self, w) ==
    IF self = HNil THEN HNil_write_descriptors(self, w) ELSE HCons_write_descriptors(self, w)

get_string(self, index, lang_id) ==
    IF self = HNil
    THEN HNil_get_string(self, index, lang_id)
    ELSE HCons_get_string(self, index, lang_id)

----------------------------------------------------------------------------
(* UsbAllocatable: configurations and their allocation against the one     *)
(* UsbBusAllocator.  allocate returns the allocated value, the allocator   *)
(* as the call left it, and the calls made.                                *)

RECURSIVE cfg_tag(_)
cfg_tag(c) == IF c.kind = "raw" THEN c.tag ELSE cfg_tag(c.inner_config)

\* UsbBusAllocator::interface() and ::string(): hand out the next number
UsbBusAllocator_interface(a) ==
    [v |-> a.next_interface_number,
     usb_alloc |-> [a EXCEPT !.next_interface_number = (@ + 1) % 2^8]]

UsbBusAllocator_string(a) ==
    [v |-> a.next_string_index,
     usb_alloc |-> [a EXCEPT !.next_string_index = (@ + 1) % 2^8]]

\* A raw interface configuration allocates to a raw interface bound to the
\* interface number the bus allocator assigns.
Raw_allocate(self, a) ==
    LET n == UsbBusAllocator_interface(a)
        s == UsbBusAllocator_string(n.usb_alloc)
    IN  [allocated |->
            [kind |-> "raw", tag |-> self.tag, id |-> n.v, rd_len |-> self.rd_len,
             str |-> IF self.description.some
                     THEN Some([index |-> s.v, lang |-> 1033, s |-> self.description.v])
                     ELSE None,
             protocol |-> "Report"],
         usb_alloc |-> IF self.description.some THEN s.usb_alloc ELSE n.usb_alloc,
         calls |-> <<Call("usb_alloc.interface", self.tag)>>
                   \o IF self.description.some
                      THEN <<Call("usb_alloc.string", self.tag)>>
                      ELSE <<>>]

\* WrappedInterface::new(interface, config)
WrappedInterface_new(interface, cfg) ==
    [kind |-> "wrapped", inner |-> interface, config |-> cfg]

RECURSIVE Config_allocate(_, _)
RECURSIVE HList_allocate(_, _)

MutWrappedAllocateOwnNumber(self, a) ==
    LET i == Config_allocate(self.inner_config, a)
        n == UsbBusAllocator_interface(i.usb_alloc)
    IN  [allocated |-> WrappedInterface_new(i.allocated, self.config),
         usb_alloc |-> n.usb_alloc,
         calls |-> <<Call("inner_config.allocate", self.inner_config)>> \o i.calls
                   \o <<Call("usb_alloc.interface", cfg_tag(self)),
                        Call("new", [interface |-> i.allocated, config |-> self.config])>>]

\* UsbAllocatable for WrappedInterfaceConfig
Wrapped_allocate(self, a) ==
    LET i == Config_allocate(self.inner_config, a)
    IN  [allocated |-> WrappedInterface_new(i.allocated, self.config),
         usb_alloc |-> i.usb_alloc,
         calls |-> <<Call("inner_config.allocate", self.inner_config)>> \o i.calls
                   \o <<Call("new", [interface |-> i.allocated, config |-> self.config])>>]

Config_allocate(self, a) ==
    IF self.kind = "raw" THEN Raw_allocate(self, a) ELSE Wrapped_allocate(self, a)

\* UsbAllocatable for HNil
HNil_allocate(self, a) == [allocated |-> self, usb_alloc |-> a, calls |-> <<>>]

MutHConsAllocateSameState(self, a) ==
    LET h == Config_allocate(Head(self), a)
        t == HList_allocate(Tail(self), a)
    IN  [allocated |-> HCons(h.allocated, t.allocated),
         usb_alloc |-> IF Tail(self) = HNil THEN h.usb_alloc ELSE t.usb_alloc,
         calls |-> <<Call("allocate", Head(self))>> \o h.calls \o t.calls]

MutHConsAllocateTailFirst(self, a) ==
    LET t == HList_allocate(Tail(self), a)
        h == Config_allocate(Head(self), t.usb_alloc)
    IN  [allocated |-> HCons(h.allocated, t.allocated),
         usb_alloc |-> h.usb_alloc,
         calls |-> t.calls \o <<Call("allocate", Head(self))>> \o h.calls]

\* UsbAllocatable for HCons<C, Tail>: head first, then tail
HCons_allocate(self, a) ==
    LET h == Config_allocate(Head(self), a)
        t == HList_allocate(Tail(self), h.usb_alloc)
    IN  [allocated |-> HCons(h.allocated, t.allocated),
         usb_alloc |-> t.usb_alloc,
         calls |-> <<Call("allocate", Head(self))>> \o h.calls \o t.calls]

HList_allocate(self, a) ==
    IF self = HNil THEN HNil_allocate(self, a) ELSE HCons_allocate(self, a)

----------------------------------------------------------------------------
(* Inputs *)

\* what a raw interface configuration can ask for
RawParams ==
    { [rd_len |-> 10, description |-> None],
      [rd_len |-> 63, description |-> Some("X")] }

RawConfigs(tag) ==
    { [kind |-> "raw", tag |-> tag, rd_len |-> p.rd_len, description |-> p.description]
      : p \in RawParams }

WrapperConfigs == { "w" }

\* WrappedInterfaceConfig::new(inner_config, config), nested to depth <= d
WrappedInterfaceConfig_new(inner_config, cfg) ==
    [kind |-> "wrapped", inner_config |-> inner_config, config |-> cfg]

RECURSIVE ConfigsOf(_, _)
ConfigsOf(tag, d) ==
    IF d = 0
    THEN RawConfigs(tag)
    ELSE ConfigsOf(tag, d - 1)
         \cup { WrappedInterfaceConfig_new(c, w)
                : c \in ConfigsOf(tag, d - 1), w \in WrapperConfigs }

RECURSIVE ConfigListsOfLen(_)
ConfigListsOfLen(n) ==
    IF n = 0
    THEN { HNil }
    ELSE { Append(l, c) : l \in ConfigListsOfLen(n - 1), c \in ConfigsOf(n, MaxDepth) }

ConfigLists == UNION { ConfigListsOfLen(n) : n \in 0 .. MaxN }

\* the allocator as the device hands it over: other classes may already
\* have taken interface numbers
Allocators ==
    { [next_interface_number |-> n, next_string_index |-> 4] : n \in {0, 2} }

\* hand-built lists: interface numbers and strings are whatever the
\* elements report, duplicates included
AnyInterfaces(tag, protocol) ==
    { [kind |-> "raw", tag |-> tag, id |-> i, rd_len |-> 10, str |-> s,
       protocol |-> protocol]
      : i \in {0, 1},
        s \in { None,
                Some([index |-> 5, lang |-> 1033, s |-> "X"]),
                Some([index |-> 5, lang |-> 1033, s |-> "Y"]) } }

RECURSIVE AnyListsOfLen(_, _)
AnyListsOfLen(n, protocol) ==
    IF n = 0
    THEN { HNil }
    ELSE { Append(l, e) : l \in AnyListsOfLen(n - 1, protocol),
                          e \in AnyInterfaces(n, protocol) }

AnyLists ==
    UNION { AnyListsOfLen(n, p) : n \in 0 .. MaxN, p \in {"Report", "Boot"} }

IdInputs == {0, 1, 2, 3}
StringIndexInputs == {4, 5}
LangIdInputs == {1033, 1031}
Capacities == {10, 30, 40, 100}

NoWriter == [capacity |-> 0, position |-> 0, buf |-> <<>>]
NewWriter(cap) == [capacity |-> cap, position |-> 0, buf |-> <<>>]

----------------------------------------------------------------------------
(* Initial states *)

Init ==
    /\ pc = "config"
    /\ config \in ConfigLists
    /\ usb_alloc \in Allocators
    /\ list = HNil
    /\ writer = NoWriter
    /\ op = [name |-> "none"]
    /\ calls = <<>>
    /\ result = None

InitAny ==
    /\ pc = "live"
    /\ config = HNil
    /\ usb_alloc \in { a \in Allocators : a.next_interface_number = 0 }
    /\ list \in AnyLists
    /\ writer = NoWriter
    /\ op = [name |-> "none"]
    /\ calls = <<>>
    /\ result = None

InitBody ==
    /\ pc = "live"
    /\ config = HNil
    /\ usb_alloc \in { a \in Allocators : a.next_interface_number = 0 }
    /\ list \in { << [kind |-> "raw", tag |-> 1, id |-> 0, rd_len |-> n, str |-> None,
                      protocol |-> "Report"] >> : n \in 0 .. MaxDescLen }
    /\ writer = NoWriter
    /\ op = [name |-> "none"]
    /\ calls = <<>>
    /\ result = None

----------------------------------------------------------------------------
(* Operations *)

Allocate ==
    /\ pc = "config"
    /\ LET r == HList_allocate(config, usb_alloc)
       IN  /\ list' = r.allocated
           /\ usb_alloc' = r.usb_alloc
           /\ calls' = r.calls
           /\ result' = Some(r.allocated)
    /\ pc' = "live"
    /\ op' = [name |-> "allocate", usb_alloc |-> usb_alloc]
    /\ writer' = NoWriter
    /\ UNCHANGED config

GetId ==
    /\ pc = "live"
    /\ \E x \in IdInputs :
          LET r == get_id(list, x)
          IN  /\ op' = [name |-> "get_id", id |-> x]
              /\ result' = r.ret
              /\ calls' = r.calls
    /\ writer' = NoWriter
    /\ UNCHANGED <<pc, config, usb_alloc, list>>

GetIdMut ==
    /\ pc = "live"
    /\ \E x \in IdInputs :
          LET r == get_id_mut(list, x)
          IN  /\ op' = [name |-> "get_id_mut", id |-> x]
              /\ result' = r.ret
              /\ calls' = r.calls
    /\ writer' = NoWriter
    /\ UNCHANGED <<pc, config, usb_alloc, list>>

Reset ==
    /\ pc = "live"
    /\ LET r == reset(list)
       IN  /\ list' = r.list
           /\ calls' = r.calls
    /\ op' = [name |-> "reset", before |-> list]
    /\ result' = None
    /\ writer' = NoWriter
    /\ UNCHANGED <<pc, config, usb_alloc>>

WriteDescriptors ==
    /\ pc = "live"
    /\ \E cap \in Capacities :
          LET r == write_descriptors(list, NewWriter(cap))
          IN  /\ op' = [name |-> "write_descriptors", capacity |-> cap]
              /\ result' = r.ret
              /\ writer' = r.writer
              /\ calls' = r.calls
    /\ UNCHANGED <<pc, config, usb_alloc, list>>

GetString ==
    /\ pc = "live"
    /\ \E index \in StringIndexInputs, lang_id \in LangIdInputs :
          LET r == get_string(list, index, lang_id)
          IN  /\ op' = [name |-> "get_string", index |-> index, lang_id |-> lang_id]
              /\ result' = r.ret
              /\ calls' = r.calls
    /\ writer' = NoWriter
    /\ UNCHANGED <<pc, config, usb_alloc, list>>

HidDescriptorBodyOf ==
    /\ pc = "live"
    /\ \E i \in 1 .. Len(list) :
          /\ op' = [name |-> "hid_descriptor_body", on |-> i]
          /\ result' = hid_descriptor_body(list[i])
    /\ calls' = <<>>
    /\ writer' = NoWriter
    /\ UNCHANGED <<pc, config, usb_alloc, list>>

Next ==
    \/ Allocate
    \/ GetId
    \/ GetIdMut
    \/ Reset
    \/ WriteDescriptors
    \/ GetString
    \/ HidDescriptorBodyOf

NextAny ==
    \/ GetId
    \/ GetIdMut
    \/ Reset
    \/ WriteDescriptors
    \/ GetString

NextBody == HidDescriptorBodyOf

Spec == Init /\ [][Next]_vars
SpecAny == InitAny /\ [][NextAny]_vars
SpecBody == InitBody /\ [][NextBody]_vars

----------------------------------------------------------------------------
(* Properties of hid_descriptor_body, checked under SpecBody *)

\* the interface the last hid_descriptor_body() was called on
BodySubject == list[op.on]

C2_TooLongPanics ==
    (op.name = "hid_descriptor_body" /\ report_descriptor_len(BodySubject) > 65535)
    => result = [panic |-> TRUE]

C2_Witness ==
    /\ op.name = "hid_descriptor_body"
    /\ report_descriptor_len(BodySubject) = 65536
    /\ result = [panic |-> TRUE]

----------------------------------------------------------------------------
(* Properties of the list's lookups *)

Positions(l) == 1 .. Len(l)

Matches(l, x) == { i \in Positions(l) : id(l[i]) = x }

Least(S) == CHOOSE i \in S : \A j \in S : i <= j

DistinctIds(l) == \A i, j \in Positions(l) : i # j => id(l[i]) # id(l[j])

IdCalls(l, n) == [ i \in 1 .. n |-> Call("id", tag_of(l[i])) ]

\* list changes only in allocate and reset, so it takes each of its values
\* in a state where one of these holds
ListIsNew == op.name \in {"none", "allocate", "reset"}

\* C3: in a collection of allocated interfaces with pairwise distinct
\* interface numbers, get_id(x) and get_id_mut(x) return the element whose
\* id() is x when there is one and None for every other u8 value x; on the
\* empty collection they return None for every x.
C3_FindByDistinctId ==
    (pc = "live" /\ DistinctIds(list))
    => /\ ListIsNew => \A x \in U8 :
             /\ \A i \in Positions(list) :
                    id(list[i]) = x
                    => /\ get_id(list, x).ret = Some(list[i])
                       /\ get_id_mut(list, x).ret = Some(list[i])
             /\ Matches(list, x) = {}
                    => /\ get_id(list, x).ret = None
                       /\ get_id_mut(list, x).ret = None
       /\ op.name \in {"get_id", "get_id_mut"}
          => /\ \A i \in Positions(list) : id(list[i]) = op.id => result = Some(list[i])
             /\ Matches(list, op.id) = {} => result = None

C3_Witness ==
    /\ pc = "live"
    /\ Len(list) = 3
    /\ DistinctIds(list)
    /\ op.name = "get_id"
    /\ id(list[3]) = op.id
    /\ result = Some(list[3])
    /\ list[3].kind = "wrapped"

\* both lookups return the first element whose id() is x, having called
\* id() on the elements up to it and nothing else
C10_Selection ==
    pc = "live"
    => /\ ListIsNew => \A x \in U8 :
             LET g == get_id(list, x)
                 m == get_id_mut(list, x)
                 n == IF Matches(list, x) = {} THEN Len(list) ELSE Least(Matches(list, x))
             IN  /\ g.ret = m.ret
                 /\ g.ret = IF Matches(list, x) = {} THEN None ELSE Some(list[n])
                 /\ g.calls = IdCalls(list, n)
                 /\ m.calls = IdCalls(list, n)
       /\ op.name \in {"get_id", "get_id_mut"}
          => LET n == IF Matches(list, op.id) = {}
                      THEN Len(list)
                      ELSE Least(Matches(list, op.id))
             IN  /\ result = IF Matches(list, op.id) = {} THEN None ELSE Some(list[n])
                 /\ calls = IdCalls(list, n)

\* a lookup leaves every element as it was
C10_LookupKeepsList ==
    (op'.name \in {"get_id", "get_id_mut"}) => list' = list

\* C10: in every list, also one whose elements repeat an interface number,
\* get_id(x) and get_id_mut(x) select the same element for every u8 x: the
\* first in sequence order whose id() is x, never a later one, or None when
\* none matches; the lookups call nothing but id() on the elements, and
\* leave the list as it was.
C10_FirstMatch == [] C10_Selection /\ [][C10_LookupKeepsList]_vars

C10_Witness ==
    /\ pc = "live"
    /\ Len(list) = 3
    /\ op.name = "get_id_mut"
    /\ id(list[1]) # op.id
    /\ id(list[2]) = op.id
    /\ id(list[3]) = op.id
    /\ list[2] # list[3]
    /\ result = Some(list[2])

----------------------------------------------------------------------------
(* Properties of write_descriptors, get_string and reset on a list *)

\* the writer after elements 1 .. i have each been written in turn
RECURSIVE WriterAfter(_, _, _)
WriterAfter(l, cap, i) ==
    IF i = 0
    THEN NewWriter(cap)
    ELSE Interface_write_descriptors(l[i], WriterAfter(l, cap, i - 1)).writer

\* what element i's own write returns when its turn comes
WriteResultAt(l, cap, i) ==
    Interface_write_descriptors(l[i], WriterAfter(l, cap, i - 1)).ret

WriteCalls(l, n) == [ i \in 1 .. n |-> Call("write_descriptors", tag_of(l[i])) ]

IsPrefix(a, b) == Len(a) <= Len(b) /\ SubSeq(b, 1, Len(a)) = a

\* C4: write_descriptors calls the elements' write_descriptors head first,
\* stops at the first element k whose write fails, calls no element after
\* k, returns element k's error unchanged and keeps in the writer what
\* elements 1 .. k-1 wrote; when no element fails (also for the empty list)
\* every element is written exactly once, in order, and the result is Ok.
C4_WriteStopsAtFirstFailure ==
    op.name = "write_descriptors"
    => LET cap == op.capacity
           failing == { i \in Positions(list) : ~WriteResultAt(list, cap, i).ok }
       IN  IF failing = {}
           THEN /\ result = Ok(<<>>)
                /\ calls = WriteCalls(list, Len(list))
                /\ writer = WriterAfter(list, cap, Len(list))
           ELSE LET k == Least(failing)
                IN  /\ result = WriteResultAt(list, cap, k)
                    /\ ~result.ok
                    /\ calls = WriteCalls(list, k)
                    /\ IsPrefix(WriterAfter(list, cap, k - 1).buf, writer.buf)
                    /\ writer = WriterAfter(list, cap, k)

C4_Witness ==
    /\ op.name = "write_descriptors"
    /\ Len(list) = 3
    /\ result = Err("BufferOverflow")
    /\ calls = WriteCalls(list, 2)
    /\ Len(writer.buf) = 3
    /\ writer.buf[2].by = tag_of(list[1])
    /\ writer.buf[3].by = tag_of(list[2])

StringCalls(l, n) == [ i \in 1 .. n |-> Call("get_string", tag_of(l[i])) ]

Defining(l, index, lang_id) ==
    { i \in Positions(l) : Interface_get_string(l[i], index, lang_id).some }

\* C5: get_string(index, lang_id) returns the result of the first element,
\* in sequence order, whose get_string(index, lang_id) is Some, and asks no
\* element after it; it returns None when no element defines that string,
\* and on the empty list.
C5_GetStringFirstDefined ==
    op.name = "get_string"
    => LET d == Defining(list, op.index, op.lang_id)
       IN  IF d = {}
           THEN /\ result = None
                /\ calls = StringCalls(list, Len(list))
           ELSE LET k == Least(d)
                IN  /\ result = Interface_get_string(list[k], op.index, op.lang_id)
                    /\ result.some
                    /\ calls = StringCalls(list, k)

C5_Witness ==
    /\ op = [name |-> "get_string", index |-> 5, lang_id |-> 1033]
    /\ Len(list) = 3
    /\ Interface_get_string(list[1], 5, 1033) = None
    /\ Interface_get_string(list[2], 5, 1033) = Some("X")
    /\ Interface_get_string(list[3], 5, 1033) = Some("Y")
    /\ result = Some("X")
    /\ calls = StringCalls(list, 2)

\* C6: one reset() of a list of N >= 0 elements calls reset() on every
\* element exactly once, head before rest; for N = 0 it calls nothing; it
\* returns no error.
C6_ResetEachOnce ==
    op.name = "reset"
    => /\ Len(list) = Len(op.before)
       /\ calls = [ i \in Positions(op.before) |-> Call("reset", tag_of(op.before[i])) ]
       /\ list = [ i \in Positions(op.before) |-> Interface_reset(op.before[i]) ]
       /\ result = None

C6_Witness ==
    /\ op.name = "reset"
    /\ Len(op.before) = 3
    /\ \A i \in 1 .. 3 : op.before[i].protocol = "Boot" /\ list[i].protocol = "Report"
    /\ Len(calls) = 3

----------------------------------------------------------------------------
(* Properties of allocation *)

\* the allocator after configurations 1 .. i have each been allocated in turn
RECURSIVE AllocatorAfter(_, _, _)
AllocatorAfter(cfgs, a, i) ==
    IF i = 0
    THEN a
    ELSE Config_allocate(cfgs[i], AllocatorAfter(cfgs, a, i - 1)).usb_alloc

\* what configuration i allocates to when its turn comes
AllocatedAt(cfgs, a, i) ==
    Config_allocate(cfgs[i], AllocatorAfter(cfgs, a, i - 1)).allocated

IsElementAllocate(c) == c.fn = "allocate"

IsNumberRequest(c) == c.fn = "usb_alloc.interface"

Count(sq, x) == Cardinality({ i \in DOMAIN sq : sq[i] = x })

IndexOf(sq, x) == CHOOSE i \in DOMAIN sq : sq[i] = x

\* C7: allocating a configuration list of N configurations calls allocate
\* exactly once on each element configuration, head before rest, all on
\* the one bus allocator, and yields a list of length N whose i-th element
\* is the allocation of the i-th configuration; the empty configuration
\* yields the empty list and leaves the allocator untouched.
C7_AllocateInOrder ==
    op.name = "allocate"
    => /\ SelectSeq(calls, IsElementAllocate)
            = [ i \in Positions(config) |-> Call("allocate", config[i]) ]
       /\ Len(list) = Len(config)
       /\ \A i \in Positions(config) : list[i] = AllocatedAt(config, op.usb_alloc, i)
       /\ usb_alloc = AllocatorAfter(config, op.usb_alloc, Len(config))
       /\ result = Some(list)
       /\ config = HNil => list = HNil /\ usb_alloc = op.usb_alloc /\ calls = <<>>

C7_Witness ==
    /\ op.name = "allocate"
    /\ Len(config) = 3
    /\ config[2].kind = "wrapped"
    /\ Len(list) = 3
    /\ \A i \in 1 .. 3 : tag_of(list[i]) = i
    /\ id(list[1]) < id(list[2])
    /\ id(list[2]) < id(list[3])

\* C8: allocating a wrapped configuration (inner configuration I, wrapper
\* configuration W) allocates I first and exactly once, then builds the
\* wrapper from that allocated interface and W; the wrapper's id() is the
\* number assigned to the inner interface, the wrapper takes no interface
\* number of its own from the bus allocator, and its report descriptor
\* length is the length field of its descriptor body.
C8_WrappedAllocation ==
    op.name = "allocate"
    => \A i \in Positions(config) :
          config[i].kind = "wrapped"
          => LET before == AllocatorAfter(config, op.usb_alloc, i - 1)
                 inner  == Config_allocate(config[i].inner_config, before)
                 made   == Call("new", [interface |-> inner.allocated,
                                        config |-> config[i].config])
                 asked  == Call("inner_config.allocate", config[i].inner_config)
                 body   == hid_descriptor_body(list[i])
             IN  /\ list[i] = [kind |-> "wrapped", inner |-> inner.allocated,
                               config |-> config[i].config]
                 /\ Count(calls, asked) = 1
                 /\ Count(calls, made) = 1
                 /\ IndexOf(calls, asked) < IndexOf(calls, made)
                 /\ id(list[i]) = id(inner.allocated)
                 /\ id(list[i]) = before.next_interface_number
                 /\ Count(calls, Call("usb_alloc.interface", cfg_tag(config[i]))) = 1
                 /\ AllocatorAfter(config, op.usb_alloc, i).next_interface_number
                        = (before.next_interface_number + 1) % 256
                 /\ ~body.panic
                 /\ body.v[6] + 256 * body.v[7] = report_descriptor_len(inner.allocated)

C8_Witness ==
    /\ op.name = "allocate"
    /\ Len(config) = 2
    /\ config[1].kind = "wrapped"
    /\ config[1].inner_config.kind = "raw"
    /\ config[1].inner_config.rd_len = 10
    /\ list[1].kind = "wrapped"
    /\ id(list[1]) = op.usb_alloc.next_interface_number
    /\ id(list[2]) = op.usb_alloc.next_interface_number + 1
    /\ hid_descriptor_body(list[1]).v = << 17, 1, 0, 1, 34, 10, 0 >>

====
